---- MODULE Spec2Model ----
(***************************************************************************)
(* A model of the near-Earth-object database: the record types of          *)
(* models.py, the linking constructor, the two lookups and the query       *)
(* generator of database.py, and create_filters / limit of filters.py.     *)
(*                                                                         *)
(* Encoding of Python values                                               *)
(*   str      a sequence of ASCII codes (<<65, 49>> is "A1")               *)
(*   float    a natural number; float('nan') is NaN                        *)
(*   bool     0 / 1, as Python's bool is an int (False == 0, True == 1)    *)
(*   None     None in a number slot, NoneStr in a string slot, NoneRef in  *)
(*            an object-reference slot                                     *)
(*   object   a NearEarthObject is its position in the neos list, a        *)
(*            CloseApproach its position in the approaches list            *)
(***************************************************************************)
EXTENDS Integers, Sequences, FiniteSets, TLC

VARIABLES
    neos,           \* the list of NearEarthObject passed to NEODatabase
    approaches,     \* the list of CloseApproach passed to NEODatabase
    db,             \* outcome of the latest NEODatabase(neos, approaches)
    constructions,  \* how many times NEODatabase(...) ran over these lists
    call,           \* the latest lookup call: operation, argument, result
    gen,            \* the iterator a consumer holds (query generator or iter(list))
    lim,            \* the latest limit(iterator, n) call and what it returned
    made            \* the latest create_filters(...) call and what it returned

vars == <<neos, approaches, db, constructions, call, gen, lim, made>>

----------------------------------------------------------------------------
(* Bounds of the model *)

MaxNeos == 2            \* free NearEarthObjects in a data set
MaxApproaches == 3      \* free CloseApproaches in a data set
MaxConstructions == 2   \* NEODatabase constructions over one pair of lists
MaxVal == 2             \* largest number used as a float, a date or a count
MaxLen == 3             \* longest plain list handed to limit
MaxCrit == 1            \* largest value given to a criterion of create_filters

----------------------------------------------------------------------------
(* Python values *)

NaN == -1
None == -2
NoneStr == <<None>>
NoneRef == 0
False == 0
True == 1

Min(a, b) == IF a <= b THEN a ELSE b

\* bool(x) for a number-or-None slot: None, 0, 0.0 and False are falsy
Truthy(x) == x # None /\ x # 0

\* bool(s) for a string-or-None slot: None and '' are falsy
TruthyStr(s) == s # NoneStr /\ s # <<>>

\* str.upper() / str.lower() on one ASCII character
UpperChar(c) == IF c >= 97 /\ c <= 122 THEN c - 32 ELSE c
LowerChar(c) == IF c >= 65 /\ c <= 90 THEN c + 32 ELSE c

\* str.upper(): every character upper-cased
Upper(s) == [i \in DOMAIN s |-> UpperChar(s[i])]

\* str.capitalize(): first character upper-cased, the rest lower-cased
Capitalize(s) == [i \in DOMAIN s |-> IF i = 1 THEN UpperChar(s[i]) ELSE LowerChar(s[i])]

\* float(x) if x else float('nan'), for a raw field that is absent (None),
\* the number 0, or a number
FloatOrNaN(x) == IF Truthy(x) THEN x ELSE NaN

----------------------------------------------------------------------------
(* models.py *)

\* NearEarthObject(pdes=..., name=..., diameter=..., pha=...); an absent
\* keyword is None / NoneStr.  An absent pha defaults to False, which is not
\* in ['N', ''], so the flag becomes True.
NearEarthObject(pdes, name, diameter, pha) ==
    [ designation |-> pdes,
      name        |-> IF TruthyStr(name) THEN name ELSE NoneStr,
      diameter    |-> FloatOrNaN(diameter),
      hazardous   |-> IF pha # NoneStr /\ pha \in {<<78>>, <<>>} THEN False ELSE True,
      approaches  |-> <<>> ]

\* CloseApproach(des=..., cd=..., dist=..., v_rel=...); time is the parsed
\* datetime, neo starts as None
CloseApproach(des, cd, dist, v_rel) ==
    [ _designation |-> des,
      time         |-> IF Truthy(cd) THEN cd ELSE None,
      distance     |-> FloatOrNaN(dist),
      velocity     |-> FloatOrNaN(v_rel),
      neo          |-> NoneRef ]

----------------------------------------------------------------------------
(* database.py: NEODatabase.__init__ *)

\* the index the constructor prints after linking: self._neos[10], self._approaches[10]
DebugIdx == 10

\* dict((k, i) for i, k in enumerate(ids))[k]: the LAST position holding k
\* (positions are 1-based here)
OrgIdx(ids, k) ==
    CHOOSE i \in DOMAIN ids : ids[i] = k /\ \A j \in DOMAIN ids : j > i => ids[j] # k

Range(s) == {s[i] : i \in DOMAIN s}

neos_ids(ns) == [i \in DOMAIN ns |-> ns[i].designation]
approach_ids(as) == [i \in DOMAIN as |-> as[i]._designation]

\* set(neos_org_idxs).intersection(approach_ids)
neos_approach_shared_ids(ns, as) == Range(neos_ids(ns)) \cap Range(approach_ids(as))

\* the approaches list after the zip loop: the one approach the dict kept
\* for each shared id gets .neo
LinkedApproaches(ns, as) ==
    [i \in DOMAIN as |->
        IF \E x \in neos_approach_shared_ids(ns, as) : OrgIdx(approach_ids(as), x) = i
        THEN [as[i] EXCEPT !.neo = OrgIdx(neos_ids(ns), as[i]._designation)]
        ELSE as[i]]

\* LinkedNeos with a guard against linking twice: an approach already in
\* the collection is not appended again
LinkedNeosGuarded(ns, as) ==
    [i \in DOMAIN ns |->
        IF /\ \E x \in neos_approach_shared_ids(ns, as) : OrgIdx(neos_ids(ns), x) = i
           /\ OrgIdx(approach_ids(as), ns[i].designation) \notin Range(ns[i].approaches)
        THEN [ns[i] EXCEPT !.approaches =
                 Append(@, OrgIdx(approach_ids(as), ns[i].designation))]
        ELSE ns[i]]

\* the neos list after the zip loop: the one neo the dict kept for each
\* shared id gets that one approach appended
LinkedNeos(ns, as) ==
    [i \in DOMAIN ns |->
        IF \E x \in neos_approach_shared_ids(ns, as) : OrgIdx(neos_ids(ns), x) = i
        THEN [ns[i] EXCEPT !.approaches =
                 Append(@, OrgIdx(approach_ids(as), ns[i].designation))]
        ELSE ns[i]]

\* what the two print statements after the loop do: IndexError when a list
\* has no element 10, AttributeError when str(approach) reads
\* self.neo.fullname of an approach whose neo is None
PrintOutcome(ns, as) ==
    IF Len(ns) <= DebugIdx THEN "IndexError"
    ELSE IF Len(as) <= DebugIdx THEN "IndexError"
    ELSE IF as[DebugIdx + 1].neo = NoneRef THEN "AttributeError"
    ELSE "ok"

\* NEODatabase(neos, approaches): links the two lists in place, then prints
Construct ==
    /\ constructions < MaxConstructions
    /\ neos' = LinkedNeos(neos, approaches)
    /\ approaches' = LinkedApproaches(neos, approaches)
    /\ db' = PrintOutcome(neos', approaches')
    /\ constructions' = constructions + 1
    /\ UNCHANGED <<call, gen, lim, made>>

----------------------------------------------------------------------------
(* database.py: the lookups *)

\* {key(neo): neo for neo in self._neos}.get(k, None): a dict comprehension
\* keeps the last neo written for a key
DictGet(keys, k) == IF k \in Range(keys) THEN OrgIdx(keys, k) ELSE NoneRef

neos_names(ns) == [i \in DOMAIN ns |-> ns[i].name]

\* get_neo_by_designation(designation): None.upper() is an AttributeError
get_neo_by_designation(ns, designation) ==
    IF designation = NoneStr
    THEN [ret |-> NoneRef, raised |-> "AttributeError"]
    ELSE [ret |-> DictGet(neos_ids(ns), Upper(designation)), raised |-> ""]

\* get_neo_by_name(name): None.capitalize() is an AttributeError
get_neo_by_name(ns, name) ==
    IF name = NoneStr
    THEN [ret |-> NoneRef, raised |-> "AttributeError"]
    ELSE [ret |-> DictGet(neos_names(ns), Capitalize(name)), raised |-> ""]

----------------------------------------------------------------------------
(* filters.py *)

\* Filter with the comparators of the bounds exchanged
FilterSwapped(cls, op, value) ==
    [cls |-> cls, op |-> IF op = "ge" THEN "le" ELSE IF op = "le" THEN "ge" ELSE op,
     value |-> value]

\* a filter object: its class (which fixes get), its operator and its value
Filter(cls, op, value) == [cls |-> cls, op |-> op, value |-> value]

\* HazardousGiven as the truthiness test the other criteria get
HazardousGivenTruthy(hazardous) == Truthy(hazardous)

\* `hazardous is not None`
HazardousGiven(hazardous) == hazardous # None

AppendIf(cond, list, f) == IF cond THEN Append(list, f) ELSE list

\* create_filters(date=..., ..., hazardous=...): c is the record of the ten
\* keyword arguments
create_filters(c) ==
    LET l0 == <<>>
        l1 == AppendIf(Truthy(c.date), l0, Filter("DateFilters", "eq", c.date))
        l2 == AppendIf(Truthy(c.start_date), l1, Filter("DateFilters", "ge", c.start_date))
        l3 == AppendIf(Truthy(c.end_date), l2, Filter("DateFilters", "le", c.end_date))
        l4 == AppendIf(Truthy(c.distance_min), l3,
                       Filter("DistanceFilters", "ge", c.distance_min))
        l5 == AppendIf(Truthy(c.distance_max), l4,
                       Filter("DistanceFilters", "le", c.distance_max))
        l6 == AppendIf(Truthy(c.velocity_min), l5,
                       Filter("VelocityFilters", "ge", c.velocity_min))
        l7 == AppendIf(Truthy(c.velocity_max), l6,
                       Filter("VelocityFilters", "le", c.velocity_max))
        l8 == AppendIf(Truthy(c.diameter_min), l7,
                       Filter("DiameterFilters", "ge", c.diameter_min))
        l9 == AppendIf(Truthy(c.diameter_max), l8,
                       Filter("DiameterFilters", "le", c.diameter_max))
        l10 == AppendIf(HazardousGiven(c.hazardous), l9,
                        Filter("HazardousFilter", "eq", c.hazardous))
    IN  l10

\* ticks of the clock in one calendar day: datetime.date() drops the
\* time of day
TicksPerDay == 2
Date(t) == t \div TicksPerDay

\* cls.get(approach) for each filter class; reading an attribute of None
\* is an AttributeError
Get(cls, a, ns) ==
    CASE cls = "DateFilters" ->
           IF a.time = None THEN [val |-> None, raised |-> "AttributeError"]
           ELSE [val |-> Date(a.time), raised |-> ""]
      [] cls = "DistanceFilters" -> [val |-> a.distance, raised |-> ""]
      [] cls = "VelocityFilters" -> [val |-> a.velocity, raised |-> ""]
      [] cls = "DiameterFilters" ->
           IF a.neo = NoneRef THEN [val |-> None, raised |-> "AttributeError"]
           ELSE [val |-> ns[a.neo].diameter, raised |-> ""]
      [] cls = "HazardousFilter" ->
           IF a.neo = NoneRef THEN [val |-> None, raised |-> "AttributeError"]
           ELSE [val |-> ns[a.neo].hazardous, raised |-> ""]

\* Op with an unknown diameter taken for zero
OpUnknownAsZero(op, x, y) ==
    LET a == IF x = NaN THEN 0 ELSE x
        b == IF y = NaN THEN 0 ELSE y
    IN  CASE op = "le" -> a <= b
          [] op = "eq" -> a = b
          [] op = "ge" -> a >= b

\* operator.le / operator.eq / operator.ge on floats: every comparison
\* with nan is False
Op(op, x, y) ==
    IF x = NaN \/ y = NaN THEN FALSE
    ELSE CASE op = "le" -> x <= y
           [] op = "eq" -> x = y
           [] op = "ge" -> x >= y

\* AttributeFilter.__call__: self.op(self.get(approach), self.value)
FilterCall(f, a, ns) ==
    LET g == Get(f.cls, a, ns)
    IN  IF g.raised # "" THEN [ret |-> FALSE, raised |-> g.raised]
        ELSE [ret |-> Op(f.op, g.val, f.value), raised |-> ""]

\* list(islice(iterator, n)) over what the iterator has left
islice(rest, n) == SubSeq(rest, 1, Min(n, Len(rest)))

\* limit without the `n == 0` test: islice(iterator, 0) is empty
limit_zero_truncates(rest, n) ==
    IF n = None
    THEN [kind |-> "iterator", ret |-> <<>>]
    ELSE [kind |-> "list", ret |-> islice(rest, n)]

\* limit(iterator, n): the iterator itself when n is 0 or None, else the
\* list of the first n values it still has
limit(rest, n) ==
    IF n = 0 \/ n = None
    THEN [kind |-> "iterator", ret |-> <<>>]
    ELSE [kind |-> "list", ret |-> islice(rest, n)]

----------------------------------------------------------------------------
(* Iterators: the query generator of database.py and a plain iter(list) *)

NoGen == [state |-> "none", src |-> <<>>, pos |-> 0, out |-> <<>>, filters |-> <<>>]
NoLim == [called |-> FALSE, n |-> None, start |-> 0, kind |-> "none", ret |-> <<>>]
NoCall == [op |-> "none", arg |-> <<>>, ret |-> NoneRef, raised |-> ""]

\* what the generator body of query walks: `for approach in self._approaches`
QuerySource(as) == [i \in DOMAIN as |-> i]

\* query(filters): calling a generator function runs none of its body
Query(filters) ==
    /\ db = "ok"
    /\ gen' = [state |-> "active", src |-> QuerySource(approaches), pos |-> 0,
               out |-> <<>>, filters |-> filters]
    /\ lim' = NoLim
    /\ UNCHANGED <<neos, approaches, db, constructions, call, made>>

\* a generator that walks the whole list at the first pull
GenNextEager ==
    /\ gen.state = "active"
    /\ IF Len(gen.out) < Len(gen.src)
       THEN gen' = [gen EXCEPT !.pos = Len(gen.src),
                               !.out = Append(@, gen.src[Len(gen.out) + 1])]
       ELSE gen' = [gen EXCEPT !.state = "done"]
    /\ UNCHANGED <<neos, approaches, db, constructions, call, lim, made>>

\* next(iterator): the next value, or StopIteration at the end
GenNext ==
    /\ gen.state = "active"
    /\ IF gen.pos < Len(gen.src)
       THEN gen' = [gen EXCEPT !.pos = @ + 1, !.out = Append(@, gen.src[gen.pos + 1])]
       ELSE gen' = [gen EXCEPT !.state = "done"]
    /\ UNCHANGED <<neos, approaches, db, constructions, call, lim, made>>

Rest(g) == SubSeq(g.src, g.pos + 1, Len(g.src))

\* limit(iterator, n) on the iterator held: islice pulls at most n values
\* and meets StopIteration only when fewer than n are left
Limit(n) ==
    /\ gen.state # "none"
    /\ ~lim.called
    /\ LET r == limit(Rest(gen), n)
       IN  /\ lim' = [called |-> TRUE, n |-> n, start |-> gen.pos,
                      kind |-> r.kind, ret |-> r.ret]
           /\ gen' = IF r.kind = "iterator" THEN gen
                     ELSE [gen EXCEPT !.pos = @ + Len(r.ret),
                                      !.out = @ \o r.ret,
                                      !.state = IF Len(r.ret) < n THEN "done" ELSE @]
    /\ UNCHANGED <<neos, approaches, db, constructions, call, made>>

----------------------------------------------------------------------------
(* The lookups and create_filters as operations *)

GetNeoByDesignation(designation) ==
    /\ db = "ok"
    /\ LET r == get_neo_by_designation(neos, designation)
       IN  call' = [op |-> "get_neo_by_designation", arg |-> designation,
                    ret |-> r.ret, raised |-> r.raised]
    /\ UNCHANGED <<neos, approaches, db, constructions, gen, lim, made>>

GetNeoByName(name) ==
    /\ db = "ok"
    /\ LET r == get_neo_by_name(neos, name)
       IN  call' = [op |-> "get_neo_by_name", arg |-> name,
                    ret |-> r.ret, raised |-> r.raised]
    /\ UNCHANGED <<neos, approaches, db, constructions, gen, lim, made>>

\* create_filters(**made.args), the criteria the caller has parsed
CreateFilters ==
    /\ ~made.called
    /\ made' = [made EXCEPT !.called = TRUE, !.ret = create_filters(made.args)]
    /\ UNCHANGED <<neos, approaches, db, constructions, call, gen, lim>>

----------------------------------------------------------------------------
(* The data sets and arguments the model runs on *)

SeqsUpTo(S, n) == UNION {[1..k -> S] : k \in 0..n}

Designations == {<<65, 49>>, <<97, 49>>, <<66, 50>>}    \* "A1", "a1", "B2"
JoinKeys == {<<65, 49>>, <<66, 50>>, <<90, 57>>}         \* "A1", "B2", "Z9" (no neo's)
RawNames == {NoneStr, <<>>, <<65, 112>>, <<65, 80>>}     \* absent, "", "Ap", "AP"
LookupNames == RawNames \cup {<<97, 112>>}               \* and "ap"
LookupDesignations == Designations \cup {<<90, 57>>, NoneStr}   \* and "Z9", None

\* ten linked pairs that can stand in front of the free records, so that
\* the lists reach the element the constructor prints: "PA" .. "PJ"
FillerDesignation(i) == <<80, 64 + i>>
FillerNeos ==
    [i \in 1..DebugIdx |-> NearEarthObject(FillerDesignation(i), NoneStr, None, <<78>>)]
FillerApproaches ==
    [i \in 1..DebugIdx |-> CloseApproach(FillerDesignation(i), TicksPerDay, 1, 1)]

\* neos that differ in designation and name, approaches that differ in join key
NamedNeos ==
    {NearEarthObject(p, n, None, <<78>>) : p \in Designations, n \in RawNames}
KeyedApproaches ==
    {CloseApproach(k, TicksPerDay, 1, 1) : k \in JoinKeys}

\* neos that differ in diameter and hazard flag, approaches that differ in
\* join key and distance
MeasuredNeos ==
    {NearEarthObject(<<65, 49>>, NoneStr, d, h) : d \in {None, 1}, h \in {<<78>>, <<89>>}}
MeasuredApproaches ==
    {CloseApproach(k, TicksPerDay, d, 1) : k \in {<<65, 49>>, <<90, 57>>}, d \in 1..MaxVal}

\* primary designations are unique in a data set
UniqueDesignations(ns) ==
    \A i, j \in DOMAIN ns : ns[i].designation = ns[j].designation => i = j

\* two freshly loaded, unlinked lists, with or without the ten filler pairs
InitData(Bodies, Apps) ==
    \E pad \in BOOLEAN, hn \in SeqsUpTo(Bodies, MaxNeos), ha \in SeqsUpTo(Apps, MaxApproaches) :
        /\ UniqueDesignations(hn)
        /\ neos = (IF pad THEN FillerNeos ELSE <<>>) \o hn
        /\ approaches = (IF pad THEN FillerApproaches ELSE <<>>) \o ha
        /\ db = "none"
        /\ constructions = 0

\* the keyword arguments of create_filters
Dates == {None} \cup 1..MaxCrit
Floats == {None} \cup 0..MaxCrit
Criteria ==
    [ date : Dates, start_date : Dates, end_date : Dates,
      distance_min : Floats, distance_max : Floats,
      velocity_min : Floats, velocity_max : Floats,
      diameter_min : Floats, diameter_max : Floats,
      hazardous : {None, False, True} ]

NoCriteria ==
    [ date |-> None, start_date |-> None, end_date |-> None,
      distance_min |-> None, distance_max |-> None,
      velocity_min |-> None, velocity_max |-> None,
      diameter_min |-> None, diameter_max |-> None, hazardous |-> None ]

NoMade == [called |-> FALSE, args |-> NoCriteria, ret |-> <<>>]

\* the filter collections handed to query: what create_filters makes of a
\* few criteria
QueryFilters ==
    {create_filters([NoCriteria EXCEPT !.distance_min = dmin, !.hazardous = h]) :
        dmin \in {None, MaxVal}, h \in {None, False}}

----------------------------------------------------------------------------
(* Specifications *)

\* linking and the lookups
Init ==
    /\ InitData(NamedNeos, KeyedApproaches)
    /\ call = NoCall /\ gen = NoGen /\ lim = NoLim /\ made = NoMade

Next ==
    \/ Construct
    \/ \E d \in LookupDesignations : GetNeoByDesignation(d)
    \/ \E n \in LookupNames : GetNeoByName(n)

Spec == Init /\ [][Next]_vars

\* linking and the query generator
InitQuery ==
    /\ InitData(MeasuredNeos, MeasuredApproaches)
    /\ call = NoCall /\ gen = NoGen /\ lim = NoLim /\ made = NoMade

NextQuery ==
    \/ Construct
    \/ \E fs \in QueryFilters : Query(fs)
    \/ GenNext

SpecQuery == InitQuery /\ [][NextQuery]_vars

\* create_filters on every combination of criteria
InitFilters ==
    /\ neos = <<>> /\ approaches = <<>> /\ db = "none" /\ constructions = 0
    /\ call = NoCall /\ gen = NoGen /\ lim = NoLim
    /\ \E c \in Criteria : made = [called |-> FALSE, args |-> c, ret |-> <<>>]

NextFilters == CreateFilters

SpecFilters == InitFilters /\ [][NextFilters]_vars

\* limit on an iterator over a plain list
InitLimit ==
    /\ neos = <<>> /\ approaches = <<>> /\ db = "none" /\ constructions = 0
    /\ call = NoCall /\ lim = NoLim /\ made = NoMade
    /\ \E s \in SeqsUpTo(1..MaxVal, MaxLen) :
          gen = [state |-> "active", src |-> s, pos |-> 0, out |-> <<>>, filters |-> <<>>]

NextLimit ==
    \/ \E n \in {None} \cup 0..(MaxLen + 1) : Limit(n)
    \/ GenNext

SpecLimit == InitLimit /\ [][NextLimit]_vars

----------------------------------------------------------------------------
(* Linking: C1 - C3 *)

\* a first construction over freshly loaded lists has completed
Linked == db = "ok" /\ constructions = 1

\* how many times approach i stands in a neo's approach collection
Occurrences(list, i) == Cardinality({k \in DOMAIN list : list[k] = i})

Matches(i, j) == approaches[i]._designation = neos[j].designation

\* C1: after construction on unlinked inputs, every approach whose join key
\* equals the designation of some neo of the list references that neo, also
\* when several approaches share a join key.
C1_EveryMatchingApproachLinked ==
    Linked =>
        \A i \in DOMAIN approaches : \A j \in DOMAIN neos :
            Matches(i, j) => approaches[i].neo = j

\* C2: after construction on unlinked inputs, the approach collection of
\* every neo holds exactly the approaches whose join key equals its
\* designation, each exactly once.
C2_ApproachCollectionsExact ==
    Linked =>
        \A j \in DOMAIN neos : \A i \in DOMAIN approaches :
            Occurrences(neos[j].approaches, i) = IF Matches(i, j) THEN 1 ELSE 0

\* C3: construction completes without raising for any pair of input lists;
\* afterwards an approach whose join key matches no neo has .neo unset and a
\* neo with no matching approach has an empty approach collection.
C3_ConstructionNeverRaises ==
    constructions = 1 =>
        /\ db = "ok"
        /\ \A i \in DOMAIN approaches :
              (\A j \in DOMAIN neos : ~Matches(i, j)) => approaches[i].neo = NoneRef
        /\ \A j \in DOMAIN neos :
              (\A i \in DOMAIN approaches : ~Matches(i, j)) => neos[j].approaches = <<>>

----------------------------------------------------------------------------
(* Lookups: C4, C5 *)

\* C4: get_neo_by_designation returns the neo whose designation is the
\* given string, whatever its letter case, returns None for a string that
\* is no neo's designation, and never raises.
C4_DesignationLookupExact ==
    (call.op = "get_neo_by_designation" /\ call.arg # NoneStr) =>
        /\ call.raised = ""
        /\ IF \E j \in DOMAIN neos : neos[j].designation = call.arg
           THEN call.ret # NoneRef /\ neos[call.ret].designation = call.arg
           ELSE call.ret = NoneRef

\* C5: get_neo_by_name returns the last neo carrying the given non-empty
\* name; for a name no neo carries, for '' and for None it returns None
\* without raising; it never returns an unnamed neo.
C5_NameLookupExact ==
    call.op = "get_neo_by_name" =>
        /\ call.raised = ""
        /\ IF TruthyStr(call.arg) /\ \E j \in DOMAIN neos : neos[j].name = call.arg
           THEN /\ call.ret # NoneRef
                /\ neos[call.ret].name = call.arg
                /\ \A j \in DOMAIN neos : neos[j].name = call.arg => j <= call.ret
           ELSE call.ret = NoneRef
        /\ call.ret # NoneRef => neos[call.ret].name # NoneStr

----------------------------------------------------------------------------
(* Query: C6 *)

\* every filter of the collection evaluates true on approach i
PassesAll(filters, i) ==
    \A k \in DOMAIN filters :
        LET r == FilterCall(filters[k], approaches[i], neos)
        IN  r.raised = "" /\ r.ret

\* C6: a traversal of query(filters) run to its end has yielded, in the
\* order of the approach list, exactly the approaches on which every filter
\* evaluates true (all of them for an empty collection).
C6_QueryYieldsExactlyMatches ==
    gen.state = "done" =>
        LET Pass(i) == PassesAll(gen.filters, i)
        IN  gen.out = SelectSeq(QuerySource(approaches), Pass)

----------------------------------------------------------------------------
(* create_filters: C7 - C9 *)

\* the filter a criterion is expected to yield
Expected(cls, op, value) == [cls |-> cls, op |-> op, value |-> value]

\* the filter of the given class and operator that create_filters returned
Made(cls, op) == SelectSeq(made.ret, LAMBDA f : f.cls = cls /\ f.op = op)

\* C7: a minimum or maximum of exactly 0.0 for distance, velocity or
\* diameter is present: its filter (>= 0.0, <= 0.0) is in the returned
\* collection.
C7_ZeroBoundIsPresent ==
    made.called =>
        /\ made.args.distance_min = 0 => Made("DistanceFilters", "ge") = <<Expected("DistanceFilters", "ge", 0)>>
        /\ made.args.distance_max = 0 => Made("DistanceFilters", "le") = <<Expected("DistanceFilters", "le", 0)>>
        /\ made.args.velocity_min = 0 => Made("VelocityFilters", "ge") = <<Expected("VelocityFilters", "ge", 0)>>
        /\ made.args.velocity_max = 0 => Made("VelocityFilters", "le") = <<Expected("VelocityFilters", "le", 0)>>
        /\ made.args.diameter_min = 0 => Made("DiameterFilters", "ge") = <<Expected("DiameterFilters", "ge", 0)>>
        /\ made.args.diameter_max = 0 => Made("DiameterFilters", "le") = <<Expected("DiameterFilters", "le", 0)>>

HazardFilters == SelectSeq(made.ret, LAMBDA f : f.cls = "HazardousFilter")

\* C8: create_filters returns a hazard equality filter exactly when
\* hazardous is set: (== True) for True, (== False) for False, none for None.
C8_HazardFilterIffSet ==
    made.called =>
        HazardFilters = IF made.args.hazardous = None THEN <<>>
                        ELSE <<Expected("HazardousFilter", "eq", made.args.hazardous)>>

C8_Witness ==
    /\ made.called
    /\ made.args.hazardous = False
    /\ HazardFilters = <<Expected("HazardousFilter", "eq", False)>>

\* the criteria that are given, each with the class and operator its filter
\* must carry
Bindings ==
    { <<"date", "DateFilters", "eq">>, <<"start_date", "DateFilters", "ge">>,
      <<"end_date", "DateFilters", "le">>,
      <<"distance_min", "DistanceFilters", "ge">>, <<"distance_max", "DistanceFilters", "le">>,
      <<"velocity_min", "VelocityFilters", "ge">>, <<"velocity_max", "VelocityFilters", "le">>,
      <<"diameter_min", "DiameterFilters", "ge">>, <<"diameter_max", "DiameterFilters", "le">>,
      <<"hazardous", "HazardousFilter", "eq">> }

Given(c) == {b \in Bindings : c[b[1]] # None}

\* every given criterion carries a truthy value
AllTruthy(c) == \A b \in Given(c) : c[b[1]] # 0

\* C9: when every given criterion is truthy, create_filters returns exactly
\* one filter per given criterion and none for an absent one, each with the
\* accessor and operator of its criterion and the criterion's value.
C9_OneFilterPerCriterion ==
    (made.called /\ AllTruthy(made.args)) =>
        /\ Len(made.ret) = Cardinality(Given(made.args))
        /\ Range(made.ret) = {Expected(b[2], b[3], made.args[b[1]]) : b \in Given(made.args)}

C9_Witness ==
    /\ made.called
    /\ AllTruthy(made.args)
    /\ Cardinality(Given(made.args)) = 10
    /\ Len(made.ret) = 10

----------------------------------------------------------------------------
(* limit: C10 *)

\* what the iterator still had when limit was called
Untruncated == SubSeq(gen.src, lim.start + 1, Len(gen.src))

\* what the iterator has produced since limit was called
ProducedSince == SubSeq(gen.out, lim.start + 1, Len(gen.out))

IsPrefix(s, t) == Len(s) <= Len(t) /\ \A i \in 1..Len(s) : s[i] = t[i]

\* C10: for a positive n, limit returns the first min(n, length) values of
\* the untruncated sequence in order, a shorter sequence whole; for n equal
\* to 0 or None the result is the iterator, which produces the full sequence.
C10_LimitTruncates ==
    lim.called =>
        IF lim.n # None /\ lim.n > 0
        THEN /\ lim.kind = "list"
             /\ Len(lim.ret) = Min(lim.n, Len(Untruncated))
             /\ IsPrefix(lim.ret, Untruncated)
        ELSE /\ lim.kind = "iterator"
             /\ IsPrefix(ProducedSince, Untruncated)
             /\ gen.state = "done" => ProducedSince = Untruncated

C10_Witness ==
    /\ lim.called
    /\ lim.n = 2
    /\ Untruncated = <<1, 2, 1>>
    /\ lim.ret = <<1, 2>>

----------------------------------------------------------------------------
(* NearEarthObject construction: C11 *)

\* the raw fields a row of the data file can carry
RawDiameters == {None} \cup 0..MaxVal
RawPha == {NoneStr, <<78>>, <<>>, <<89>>}                 \* absent, "N", "", "Y"

\* NearEarthObject(**row) on a row with the given pha field: the latest call
\* keeps the raw pha and where the new object stands
NewNearEarthObject(pdes, name, diameter, pha) ==
    /\ neos = <<>>
    /\ neos' = <<NearEarthObject(pdes, name, diameter, pha)>>
    /\ call' = [op |-> "NearEarthObject", arg |-> pha, ret |-> 1, raised |-> ""]
    /\ UNCHANGED <<approaches, db, constructions, gen, lim, made>>

InitModels ==
    /\ neos = <<>> /\ approaches = <<>> /\ db = "none" /\ constructions = 0
    /\ call = NoCall /\ gen = NoGen /\ lim = NoLim /\ made = NoMade

NextModels ==
    \E pdes \in Designations, name \in RawNames, diameter \in RawDiameters, pha \in RawPha :
        NewNearEarthObject(pdes, name, diameter, pha)

SpecModels == InitModels /\ [][NextModels]_vars

\* C11: the hazard flag of a new NearEarthObject is false when pha is absent
\* and when it is 'N' or ''; it is true for any other marker.
C11_HazardFlagDefaultsFalse ==
    call.op = "NearEarthObject" =>
        neos[call.ret].hazardous =
            IF call.arg = NoneStr \/ call.arg = <<78>> \/ call.arg = <<>> THEN False ELSE True

----------------------------------------------------------------------------
(* Evaluating a filter on an approach: C12, C13 *)

CriterionNames ==
    { "date", "start_date", "end_date", "distance_min", "distance_max",
      "velocity_min", "velocity_max", "diameter_min", "diameter_max", "hazardous" }

\* every filter create_filters builds from one criterion
CreatedFilters ==
    UNION {Range(create_filters([NoCriteria EXCEPT ![k] = v])) :
              k \in CriterionNames, v \in 0..MaxCrit}

\* diameter filters with each of the three operators
DiameterFilters ==
    {Filter("DiameterFilters", op, v) : op \in {"le", "eq", "ge"}, v \in 0..MaxVal}

\* approaches that differ in join key only
PlainApproaches ==
    {CloseApproach(k, TicksPerDay, 1, 1) : k \in {<<65, 49>>, <<90, 57>>}}

\* f(approaches[i]): the latest call keeps the filter, the approach, the
\* neo it referenced then, and the result as a Python bool
EvalFilter(f, i) ==
    /\ LET r == FilterCall(f, approaches[i], neos)
       IN  call' = [op |-> "filter", arg |-> <<i>>, f |-> f, neo |-> approaches[i].neo,
                    ret |-> IF r.ret THEN True ELSE False, raised |-> r.raised]
    /\ UNCHANGED <<neos, approaches, db, constructions, gen, lim, made>>

InitPredicate ==
    /\ InitData(MeasuredNeos, PlainApproaches)
    /\ call = NoCall /\ gen = NoGen /\ lim = NoLim /\ made = NoMade

\* a run loads, constructs and then calls one filter: a filter call changes
\* neither list, so calls do not affect each other nor a later construction
NextPredicate ==
    \/ /\ call.op = "none"
       /\ Construct
    \/ /\ call.op = "none"
       /\ \E f \in CreatedFilters \cup DiameterFilters, i \in DOMAIN approaches :
              EvalFilter(f, i)

SpecPredicate == InitPredicate /\ [][NextPredicate]_vars

\* the latest filter call was made after linking, on an approach whose join
\* key no neo carries
CalledOnOrphan ==
    /\ constructions >= 1
    /\ call.neo = NoneRef
    /\ \A j \in DOMAIN neos : neos[j].designation # approaches[call.arg[1]]._designation

\* C12: every filter create_filters builds, evaluated on an orphan approach
\* (.neo unset), returns a boolean and does not raise.
C12_FiltersTotalOnOrphans ==
    (call.op = "filter" /\ call.f \in CreatedFilters /\ CalledOnOrphan) =>
        call.raised = "" /\ call.ret \in {False, True}

\* the approach of the latest filter call referenced a neo of unknown diameter
CalledOnUnknownDiameter ==
    /\ call.op = "filter"
    /\ call.f.cls = "DiameterFilters"
    /\ call.neo # NoneRef
    /\ neos[call.neo].diameter = NaN

\* C13: on an approach linked to a neo of unknown diameter, a diameter
\* filter is false for <=, = and >= and every reference value, zero
\* included, and does not raise.
C13_UnknownDiameterNeverMatches ==
    CalledOnUnknownDiameter => call.raised = "" /\ call.ret = False

C13_Witness ==
    /\ CalledOnUnknownDiameter
    /\ db = "ok"
    /\ approaches[call.arg[1]]._designation = <<65, 49>>
    /\ call.f = [cls |-> "DiameterFilters", op |-> "le", value |-> 0]
    /\ call.ret = False

----------------------------------------------------------------------------
(* Constructing twice over the same lists: C15 *)

\* the constructor alone, run again over the lists it has linked
NextRelink == Construct

\* neos that differ in designation only
UnnamedNeos == {NearEarthObject(p, NoneStr, None, <<78>>) : p \in Designations}

InitRelink ==
    /\ InitData(UnnamedNeos, KeyedApproaches)
    /\ call = NoCall /\ gen = NoGen /\ lim = NoLim /\ made = NoMade

SpecRelink == InitRelink /\ [][NextRelink]_vars

\* a step that is the second construction over the same lists
SecondConstruction == constructions = 1 /\ constructions' = 2

\* C15: a second construction over the already linked lists appends every
\* linked approach to its neo's collection again (duplicates), and leaves
\* every approach's .neo as the first construction set it.
C15_RelinkingDuplicates ==
    [][SecondConstruction =>
          /\ \A i \in DOMAIN approaches : approaches'[i].neo = approaches[i].neo
          /\ \A j \in DOMAIN neos :
                neos'[j].approaches = neos[j].approaches \o neos[j].approaches]_vars

C15_Witness ==
    /\ constructions = 2
    /\ db = "ok"
    /\ \E j \in DOMAIN neos :
          /\ neos[j].designation = <<66, 50>>
          /\ Len(neos[j].approaches) = 2
          /\ neos[j].approaches[1] = neos[j].approaches[2]
          /\ approaches[neos[j].approaches[1]].neo = j

----------------------------------------------------------------------------
(* The laziness of query and limit *)

\* a traversal of query's generator, pulled directly and through limit
InitTraversal ==
    /\ InitData(UnnamedNeos, PlainApproaches)
    /\ call = NoCall /\ gen = NoGen /\ lim = NoLim /\ made = NoMade

NextTraversal ==
    \/ /\ gen.state = "none"
       /\ Construct
    \/ \E fs \in QueryFilters : Query(fs)
    \/ GenNext
    \/ \E n \in {None} \cup 0..MaxVal : Limit(n)

SpecTraversal == InitTraversal /\ [][NextTraversal]_vars

\* the approaches the generator has examined are the gen.pos first ones
Examined == gen.pos

\* the generator has yielded what it examined, each approach once, in order
OnDemand ==
    /\ Examined = Len(gen.out)
    /\ gen.out = [i \in 1..Len(gen.out) |-> i]
    /\ Len(gen.out) <= Len(approaches)
    /\ \A i, j \in DOMAIN gen.out : i # j => gen.out[i] # gen.out[j]

\* a step of limit examines n approaches when n is positive and that many
\* are left, all that are left when fewer are, and none when n is 0 or None
LimitPullsN ==
    (~lim.called /\ lim'.called) =>
        gen'.pos = gen.pos +
            IF lim'.n = None \/ lim'.n = 0 THEN 0
            ELSE Min(lim'.n, Len(gen.src) - gen.pos)

\* an exhausted generator stays as it is until query makes a new one
ExhaustedStays ==
    gen.state = "done" =>
        \/ gen' = gen
        \/ gen'.state = "active" /\ gen'.pos = 0 /\ gen'.out = <<>>

\* a pull never evaluates a predicate
NoPredicateEvaluated == call' = call

\* C14: the query result is produced on demand: when k elements have been
\* pulled, directly or through limit with n = k, exactly the first k
\* approaches have been examined and no predicate has been evaluated on a
\* later one; each approach is yielded at most once; and an exhausted
\* generator yields nothing more unless query is called again.
C14_QueryIsLazy ==
    /\ []OnDemand
    /\ [][LimitPullsN /\ ExhaustedStays /\ NoPredicateEvaluated]_vars

\* limit with n = 2 on a fresh generator over at least eleven approaches:
\* two are pulled, two are examined, and the generator is still active
C14_Witness ==
    /\ db = "ok"
    /\ lim.called /\ lim.n = 2 /\ lim.start = 0 /\ lim.ret = <<1, 2>>
    /\ gen.state = "active" /\ gen.out = <<1, 2>> /\ Examined = 2
    /\ Len(gen.src) > 2

====
